---- MODULE Spec2Model ----
(***************************************************************************)
(* Model of the interactive editor of advanced_image_editor.py: the        *)
(* session state of ImageEditorWindow (working raster, proxy, transform    *)
(* stack, processed outputs), the debounced scheduling of _do_process, the *)
(* export path of save_image, and ProcessingThread.                        *)
(*                                                                         *)
(* Rasters are symbolic: a raster is the record of the file it was decoded *)
(* from, its width and height, and the rotation / crop / resampling that   *)
(* produced it.  Two rasters are equal exactly when they were produced by  *)
(* the same operations with the same arguments from the same file.         *)
(* Python's float arithmetic is computed exactly, with integers: the sizes *)
(* int(x * (a / b)) and int(x / (a / b)), and the angle                    *)
(* (rotation_angle + angle) % 360.  Time is counted in milliseconds and    *)
(* advances in steps of TickMs.                                            *)
(***************************************************************************)
EXTENDS Integers, Sequences, FiniteSets, TLC

VARIABLES
    original_image,       \* self.original_image: the working (full) raster
    proxy_image,          \* self.proxy_image
    processed_image,      \* self.processed_image: full-resolution output
    processed_proxy,      \* self.processed_proxy
    pre_transform_image,  \* self.pre_transform_image
    rotation_angle,       \* self.rotation_angle
    crop_rect,            \* self.crop_rect
    rotation_spin,        \* rotation_spin.value(), in tenths of a degree
    crops,                \* crop selections accepted so far
    params,               \* self.params
    pixmap,               \* size of the pixmap shown by image_label
    timer,                \* debounce_timer: remaining ms, -1 when inactive
    is_processing,        \* self.is_processing
    pc,                   \* "loop", "do_process" or "crashed"
    dialog,               \* where save_image stands, "none" outside it
    image_to_save,        \* save_image's local image_to_save
    written,              \* the raster save_image wrote last
    qt_queue,             \* input events posted while the GUI thread is busy
    since_event,          \* ms since the last process_image call, capped
    burst,                \* runs since the last process_image call
    coalesced,            \* the last process_image call restarted a running timer
    event_params,         \* params in force after the last process_image call
    run_params,           \* params in force when the current run started
    backlog,              \* a change made during a run waits for its own run
    run_log,              \* what the last completed run did
    net_zero,             \* the rotate_image call(s) just made, for rotate(a); rotate(-a)
    last_call,            \* the transform handler that returned last
    th_heap,              \* AutoEditParams objects by identity
    th_window,            \* the object the caller holds as self.params
    th_thread,            \* ProcessingThread.params (an object identity)
    th_dispatched,        \* field values at the time the thread was created
    th_read,              \* field values ProcessingThread.run read
    th_pc,                \* "none", "started" or "finished"
    cp_image,             \* argument of _create_proxy
    cp_max,               \* proxy_max_dimension used with it
    cp_result,            \* its result, None before the call
    ep_image,             \* the array passed to apply_edit_pipeline
    ep_params,            \* the AutoEditParams passed with it
    ep_results,           \* what the calls made so far returned
    groups,               \* ImageGroupManager._groups: name -> image_paths
    ig_result,            \* what the last ImageGroup(Manager) call returned
    fn_args,              \* arguments of a function called on its own
    fn_result             \* its result, None before the call

raster_vars    == <<original_image, proxy_image>>
transform_vars == <<pre_transform_image, rotation_angle, crop_rect,
                    rotation_spin, crops>>
out_vars       == <<processed_image, processed_proxy, pixmap>>
save_vars      == <<dialog, image_to_save, written>>
debounce_vars  == <<timer, since_event, burst, coalesced, event_params>>
run_vars       == <<is_processing, run_params, backlog, run_log, qt_queue>>
th_vars        == <<th_heap, th_window, th_thread, th_dispatched, th_read, th_pc>>
cp_vars        == <<cp_image, cp_max, cp_result>>
ep_vars        == <<ep_image, ep_params, ep_results>>
ig_vars        == <<groups, ig_result>>
fn_vars        == <<fn_args, fn_result>>
lib_vars       == <<ig_vars, fn_vars>>
window_vars    == <<raster_vars, transform_vars, out_vars, save_vars,
                    debounce_vars, run_vars, params, net_zero, last_call>>
all_but_pc     == <<window_vars, th_vars, cp_vars, ep_vars, lib_vars>>
vars           == <<all_but_pc, pc>>

(***************************************************************************)
(* Program constants and bounds                                            *)
(***************************************************************************)
proxy_max_dimension == 960
DEBOUNCE_MS         == 150
FULL_RES_LIMIT      == 5000000
LabelW              == 600
LabelH              == 400
MinSelection        == 10

TickMs     == 75   \* length of one clock step, in ms
MaxQueue   == 1    \* input events that may pile up during one run
MaxCrops   == 1    \* crop selections accepted in one session of the program
MaxObjects == 3    \* AutoEditParams objects alive next to one ProcessingThread
MaxCalls   == 2    \* apply_edit_pipeline calls made on the same objects
MaxRecrops == 2    \* crop selections accepted when a crop is cropped again

None == [kind |-> "None"]

Rect(x, y, w, h) == [kind |-> "rect", x |-> x, y |-> y, w |-> w, h |-> h]

Max(a, b) == IF a >= b THEN a ELSE b
Min(a, b) == IF a <= b THEN a ELSE b
Abs(a)    == IF a < 0 THEN -a ELSE a

(***************************************************************************)
(* IEEE double arithmetic on quotients of small integers.                  *)
(* fl(a / b) = (a * 2^E + d) / (b * 2^E) with E = 52 - floor(log2(a / b)); *)
(* d is the rounding error of the division, scaled.  A product or quotient *)
(* whose exact value is an integer q comes out as q or as the double just  *)
(* below q, which int() truncates to q - 1.                                *)
(***************************************************************************)
\* 2^0 .. 2^30
PowersOfTwo ==
    <<1, 2, 4, 8, 16, 32, 64, 128, 256, 512, 1024, 2048, 4096, 8192, 16384,
      32768, 65536, 131072, 262144, 524288, 1048576, 2097152, 4194304,
      8388608, 16777216, 33554432, 67108864, 134217728, 268435456,
      536870912, 1073741824>>

Pow2(n) == PowersOfTwo[n + 1]

\* floor(log2(q)) for q >= 1
RECURSIVE ILog2(_)
ILog2(q) == IF q < 2 THEN 0 ELSE 1 + ILog2(q \div 2)

\* The least n >= 1 with a * 2^n >= b, for a < b
RECURSIVE ShiftUp(_, _)
ShiftUp(a, b) == IF 2 * a >= b THEN 1 ELSE 1 + ShiftUp(2 * a, b)

\* floor(log2(a / b))
QuotientExponent(a, b) == IF a >= b THEN ILog2(a \div b) ELSE -ShiftUp(a, b)

\* (a * 2^e) % m
RECURSIVE ShiftMod(_, _, _)
ShiftMod(a, e, m) ==
    IF e = 0 THEN a % m
    ELSE LET s == Min(e, 8)
         IN ShiftMod(((a % m) * Pow2(s)) % m, e - s, m)

\* The scaled rounding error d of the double a / b (round to nearest even).
QuotientError(a, b) ==
    LET r   == ShiftMod(a, 52 - QuotientExponent(a, b), 2 * b)
        rem == r % b
        odd == r >= b
    IN IF rem = 0 THEN 0
       ELSE IF 2 * rem < b \/ (2 * rem = b /\ ~odd) THEN -rem
       ELSE b - rem

\* lhs <= w * 2^k
AtMostScaled(lhs, w, k) ==
    IF k >= 0 THEN lhs <= w * Pow2(k) ELSE lhs * Pow2(-k) <= w

\* The exponent k at which a deficit below the integer q still rounds to q.
RoundsBackExponent(q, a, b) ==
    ILog2(q) - QuotientExponent(a, b) - 1
        - (IF q = Pow2(ILog2(q)) THEN 1 ELSE 0)

\* int(x * (a / b)), given the rounding error d of a / b
ScaleWith(x, a, b, d) ==
    LET q == (x * a) \div b
    IN IF (x * a) % b # 0 \/ q = 0 \/ d >= 0 THEN q
       ELSE IF AtMostScaled(x * (-d), b, RoundsBackExponent(q, a, b)) THEN q
       ELSE q - 1

\* int(x * (a / b))
ScaleBy(x, a, b) ==
    IF (x * a) % b # 0 THEN (x * a) \div b
    ELSE ScaleWith(x, a, b, QuotientError(a, b))

\* int(x / (a / b))
DivideBy(x, a, b) ==
    LET q == (x * b) \div a
        d == QuotientError(a, b)
    IN IF (x * b) % a # 0 \/ q = 0 THEN q
       ELSE IF d <= 0 THEN q
       ELSE IF AtMostScaled(q * d, a, RoundsBackExponent(q, a, b)) THEN q
       ELSE q - 1

(***************************************************************************)
(* Rasters                                                                 *)
(***************************************************************************)
\* A float angle: tenths / 10 degrees plus dev units of 2^-56 / 5 degrees.
Degrees(tenths, dev) == [tenths |-> tenths, dev |-> dev]

Zero == Degrees(0, 0)

Decoded(name, w, h) ==
    [kind |-> "raster", src |-> name, w |-> w, h |-> h,
     rot |-> Zero, crop |-> None, resampled |-> FALSE]

\* The files the user can open, as np.array(pil_image) decodes them.
Files ==
    { Decoded("medium", 1920, 1280),
      Decoded("large", 3000, 2000),
      Decoded("thin", 10000, 5) }

\* The files opened while exercising the transform stack, and the export.
TransformFiles == { f \in Files : f.src # "large" }
ExportFiles    == { f \in Files : f.src # "thin" }

\* PIL's "height and width must be > 0"
ResizeError == [kind |-> "ValueError"]

\* _create_proxy, given the rounding error d of scale = M / max_dim.
CreateProxyWith(image, M, d) ==
    LET max_dim == Max(image.h, image.w)
        new_w   == ScaleWith(image.w, M, max_dim, d)
        new_h   == ScaleWith(image.h, M, max_dim, d)
    IN IF max_dim <= M THEN image
       ELSE IF new_w < 1 \/ new_h < 1 THEN ResizeError
       ELSE [image EXCEPT !.w = new_w, !.h = new_h, !.resampled = TRUE]

\* _create_proxy for a given proxy_max_dimension.
CreateProxyOf(image, M) ==
    CreateProxyWith(image, M, QuotientError(M, Max(image.h, image.w)))

\* QuotientError(proxy_max_dimension, max_dim), tabulated once.
ProxyScaleError ==
    [max_dim \in 1..20000 |-> QuotientError(proxy_max_dimension, max_dim)]

_create_proxy(image) ==
    CreateProxyWith(image, proxy_max_dimension,
                    ProxyScaleError[Max(image.h, image.w)])

(***************************************************************************)
(* Angles                                                                  *)
(***************************************************************************)
\* The double nearest to tenths / 10 + dev units, as its deviation from
\* tenths / 10.  A whole number of degrees is a double; in the binade
\* [2^(e-4), 2^(e-3)) doubles are 5 * 2^e units apart.
RoundToDouble(tenths, dev) ==
    IF tenths % 10 = 0 /\ dev = 0 THEN Degrees(tenths, 0)
    ELSE LET s    == IF tenths < 0 THEN -1 ELSE 1
             at   == Abs(tenths)
             ka   == s * dev
             e    == ILog2((16 * at) \div 10)
             grid == 5 * Pow2(e)
             r2   == (Pow2(e + 1) * ((at * (Pow2((54 - e) % 4) % 5)) % 5) + ka)
                        % (2 * grid)
             r    == r2 % grid
             odd  == r2 >= grid
         IN IF 2 * r < grid \/ (2 * r = grid /\ ~odd)
            THEN Degrees(tenths, s * (ka - r))
            ELSE Degrees(tenths, s * (ka + (grid - r)))

\* rotation_spin.value(): the double nearest to the decimal shown.
SpinValue(tenths) == RoundToDouble(tenths, 0)

\* (x + angle) % 360 for a float x and a whole number of degrees: the sum is
\* rounded; % is exact for a sum of 360 or more, and adds 360 to a negative
\* sum, which is rounded again.
AddMod360(x, angle) ==
    LET sum == RoundToDouble(x.tenths + 10 * angle, x.dev)
    IN IF sum.tenths >= 3600 THEN Degrees(sum.tenths - 3600, sum.dev)
       ELSE IF sum.tenths < 0 THEN RoundToDouble(sum.tenths + 3600, sum.dev)
       ELSE sum

\* x % 360 == y % 360
EqualMod360(x, y) == AddMod360(x, 0) = AddMod360(y, 0)

\* sin of 0, 10, ... 90 degrees and of 0.1 and 89.9 degrees, times 10^7.
SinTable ==
    <<0, 1736482, 3420201, 5000000, 6427876, 7660444, 8660254, 9396926,
      9848078, 10000000>>

AbsSin(tenths) ==
    LET r == tenths % 1800
        a == IF r > 900 THEN 1800 - r ELSE r
    IN IF a = 1 THEN 17453
       ELSE IF a = 899 THEN 9999985
       ELSE SinTable[(a \div 100) + 1]

AbsCos(tenths) == AbsSin(tenths + 900)

\* int(p * sp + q * sq) for factors given times 10^7.
BoundingSide(p, sp, q, sq) ==
    LET hi == p * (sp \div 1000) + q * (sq \div 1000)
        lo == p * (sp % 1000) + q * (sq % 1000)
    IN (hi + (lo \div 1000)) \div 10000

\* The rotation block of _apply_transforms: cv2.warpAffine into the
\* expanded bounding box, for the rotation matrix of this float angle.
Rotate(image, angle) ==
    IF angle = Zero THEN image
    ELSE LET s == AbsSin(angle.tenths)
             c == AbsCos(angle.tenths)
         IN [image EXCEPT !.rot = angle,
                          !.w = BoundingSide(image.h, s, image.w, c),
                          !.h = BoundingSide(image.h, c, image.w, s)]

\* The clip with upper limits only.
ClampCropFromAbove(rect, img_w, img_h) ==
    LET x == Min(rect.x, img_w - 1)
        y == Min(rect.y, img_h - 1)
        w == Min(rect.w, img_w - x)
        h == Min(rect.h, img_h - y)
    IN Rect(x, y, w, h)

\* The "Validate and clip crop rect" lines of _apply_transforms.
ClampCrop(rect, img_w, img_h) ==
    LET x == Max(0, Min(rect.x, img_w - 1))
        y == Max(0, Min(rect.y, img_h - 1))
        w == Max(1, Min(rect.w, img_w - x))
        h == Max(1, Min(rect.h, img_h - y))
    IN Rect(x, y, w, h)

\* transformed[y:y+h, x:x+w]
Crop(image, rect) ==
    IF rect = None THEN image
    ELSE LET c == ClampCrop(rect, image.w, image.h)
         IN [image EXCEPT !.crop = c, !.w = c.w, !.h = c.h]

\* The raster _apply_transforms computes from the pre-transform source.
Transformed(pre, angle, rect) == Crop(Rotate(pre, angle), rect)

(***************************************************************************)
(* Parameters and the pipeline                                             *)
(***************************************************************************)
ImageType == {"COLOR_NEGATIVE", "BW_NEGATIVE", "POSITIVE"}

\* AutoEditParams(): the dataclass defaults of the fields the model keeps.
\* gamma and neutral_balance_strength are in hundredths, wb_temperature in
\* slider units.
AutoEditParams ==
    [image_type                 |-> "COLOR_NEGATIVE",
     enable_histogram_centering |-> TRUE,
     enable_bw_point            |-> TRUE,
     enable_midtone             |-> TRUE,
     gamma                      |-> 100,
     enable_dynamic_range       |-> TRUE,
     enable_color_balance       |-> TRUE,
     neutral_balance_strength   |-> 50,
     film_profile               |-> "NEUTRAL",
     enable_white_balance       |-> FALSE,
     wb_temperature             |-> 0,
     enable_smoothing           |-> FALSE,
     enable_saturation          |-> TRUE,
     enable_protection          |-> TRUE,
     enable_final_curve         |-> TRUE]

for_color_negative ==
    [AutoEditParams EXCEPT !.image_type = "COLOR_NEGATIVE",
                           !.enable_histogram_centering = TRUE,
                           !.enable_bw_point = TRUE,
                           !.enable_midtone = TRUE,
                           !.gamma = 110,
                           !.enable_dynamic_range = TRUE,
                           !.enable_color_balance = TRUE,
                           !.neutral_balance_strength = 60,
                           !.film_profile = "KODAK_PORTRA",
                           !.enable_saturation = TRUE,
                           !.enable_final_curve = TRUE]

for_bw_negative ==
    [AutoEditParams EXCEPT !.image_type = "BW_NEGATIVE",
                           !.enable_histogram_centering = TRUE,
                           !.enable_bw_point = TRUE,
                           !.enable_midtone = TRUE,
                           !.gamma = 105,
                           !.enable_dynamic_range = TRUE,
                           !.enable_color_balance = FALSE,
                           !.enable_saturation = FALSE,
                           !.enable_smoothing = TRUE,
                           !.enable_final_curve = TRUE]

for_positive ==
    [AutoEditParams EXCEPT !.image_type = "POSITIVE",
                           !.enable_histogram_centering = FALSE,
                           !.enable_bw_point = TRUE,
                           !.enable_midtone = TRUE,
                           !.gamma = 100,
                           !.enable_dynamic_range = FALSE,
                           !.enable_color_balance = TRUE,
                           !.neutral_balance_strength = 30,
                           !.enable_saturation = TRUE,
                           !.enable_final_curve = TRUE]

Preset(t) ==
    IF t = "COLOR_NEGATIVE" THEN for_color_negative
    ELSE IF t = "BW_NEGATIVE" THEN for_bw_negative
    ELSE for_positive

\* Slider positions the user can move the gamma slider to.
GammaChoices == {150}

\* apply_edit_pipeline(image, params): a pure function of both arguments;
\* the output has the height and width of its input.
apply_edit_pipeline(image, p) ==
    [kind |-> "processed", input |-> image, params |-> p,
     w |-> image.w, h |-> image.h]

\* display_image: the size of the pixmap for a display source, or
\* ResizeError when a side comes out as 0 (ZeroDivisionError for
\* display_scale, or PIL refusing an empty image).
DisplaySize(source) ==
    LET tall == LabelW * source.h > LabelH * source.w
        dw   == IF tall THEN ScaleBy(LabelH - 20, source.w, source.h)
                ELSE LabelW - 20
        dh   == IF tall THEN LabelH - 20
                ELSE DivideBy(LabelW - 20, source.w, source.h)
    IN IF dw < 1 \/ dh < 1 THEN ResizeError
       ELSE [kind |-> "pixmap", w |-> dw, h |-> dh]

(***************************************************************************)
(* The window: initial state (ImageEditorWindow.__init__)                  *)
(***************************************************************************)
\* No rotate_image call is being followed.
NoPair ==
    [phase |-> "none", a |-> 0, angle0 |-> Zero, raster0 |-> None,
     untouched0 |-> FALSE]

InitWindow ==
    /\ original_image = None
    /\ proxy_image = None
    /\ processed_image = None
    /\ processed_proxy = None
    /\ pre_transform_image = None
    /\ rotation_angle = Zero
    /\ crop_rect = None
    /\ rotation_spin = 0
    /\ crops = 0
    /\ params = for_color_negative
    /\ pixmap = None
    /\ timer = -1
    /\ is_processing = FALSE
    /\ pc = "loop"
    /\ dialog = "none"
    /\ image_to_save = None
    /\ written = None
    /\ qt_queue = <<>>
    /\ since_event = DEBOUNCE_MS
    /\ burst = "none"
    /\ coalesced = FALSE
    /\ event_params = None
    /\ run_params = None
    /\ backlog = FALSE
    /\ run_log = "none"
    /\ net_zero = NoPair
    /\ last_call = "none"

InitThreadIdle ==
    /\ th_heap = <<>>
    /\ th_window = 0
    /\ th_thread = 0
    /\ th_dispatched = None
    /\ th_read = None
    /\ th_pc = "none"

InitProxyIdle ==
    /\ cp_image = None
    /\ cp_max = 0
    /\ cp_result = None

InitPipelineIdle ==
    /\ ep_image = None
    /\ ep_params = None
    /\ ep_results = <<>>

\* ImageGroupManager.__init__, and no function called on its own.
InitLibraryIdle ==
    /\ groups = <<>>
    /\ ig_result = None
    /\ fn_args = None
    /\ fn_result = None

Init ==
    InitWindow /\ InitThreadIdle /\ InitProxyIdle /\ InitPipelineIdle /\ InitLibraryIdle

\* The event loop takes the next input event: the main loop with no modal
\* dialog open, or QApplication.processEvents() inside save_image.  Events
\* posted during a run are handled first.
Idle ==
    /\ pc = "loop"
    /\ dialog \in {"none", "process_events"}
    /\ qt_queue = <<>>

\* An exception leaves a slot: PyQt ends the process.
Abort == pc' = "crashed" /\ UNCHANGED all_but_pc

\* What no input handler outside save_image and _do_process assigns.
handler_frame == <<save_vars, run_vars, pc, th_vars, cp_vars, ep_vars, lib_vars>>

(***************************************************************************)
(* Debounced scheduling                                                    *)
(***************************************************************************)
\* process_image as it would be without the restart: a timer that is
\* already running is left to run out.
process_image_no_restart(orig, p) ==
    IF orig = None
    THEN UNCHANGED debounce_vars
    ELSE /\ timer' = IF timer >= 0 THEN timer ELSE DEBOUNCE_MS
         /\ since_event' = 0
         /\ burst' = "pending"
         /\ coalesced' = (timer > 0)
         /\ event_params' = p

\* process_image(), called with the working raster and parameters the
\* handler leaves behind: debounce_timer.start(150) restarts the timer.
process_image(orig, p) ==
    IF orig = None
    THEN UNCHANGED debounce_vars
    ELSE /\ timer' = DEBOUNCE_MS
         /\ since_event' = 0
         /\ burst' = "pending"
         /\ coalesced' = (timer > 0)
         /\ event_params' = p

\* update_param (and the other handlers that set one field of self.params).
update_param(value) ==
    /\ params' = [params EXCEPT !.gamma = value]
    /\ process_image(original_image, params')

UpdateParam(value) ==
    /\ Idle
    /\ value # params.gamma
    /\ update_param(value)
    /\ UNCHANGED <<raster_vars, transform_vars, out_vars, net_zero, last_call,
                   handler_frame>>

OnImageTypeChanged(t) ==
    /\ Idle
    /\ t # params.image_type
    /\ params' = Preset(t)
    /\ process_image(original_image, params')
    /\ UNCHANGED <<raster_vars, transform_vars, out_vars, net_zero, last_call,
                   handler_frame>>

ResetToDefaults ==
    /\ Idle
    /\ params' = Preset(params.image_type)
    /\ process_image(original_image, params')
    /\ UNCHANGED <<raster_vars, transform_vars, out_vars, net_zero, last_call,
                   handler_frame>>

\* The "Apply to Current" button: process_image alone.
ApplyButton ==
    /\ Idle
    /\ process_image(original_image, params)
    /\ UNCHANGED <<raster_vars, transform_vars, out_vars, net_zero, last_call,
                   handler_frame, params>>

\* The timer's clock; a timeout that is due is delivered by Timeout.
Tick ==
    /\ pc # "crashed"
    /\ timer > 0 \/ since_event < DEBOUNCE_MS
    /\ timer' = IF timer > 0 THEN Max(0, timer - TickMs) ELSE timer
    /\ since_event' = Min(DEBOUNCE_MS, since_event + TickMs)
    /\ UNCHANGED <<raster_vars, transform_vars, out_vars, net_zero, last_call,
                   handler_frame, params, burst, coalesced, event_params>>

(***************************************************************************)
(* Transform handlers                                                      *)
(***************************************************************************)
\* _apply_transforms raises when _create_proxy cannot resize.
TransformFails(pre, angle, rect) ==
    _create_proxy(Transformed(pre, angle, rect)) = ResizeError

\* _apply_transforms as it would be if it transformed the working raster
\* in place instead of the retained source.
_apply_transforms_in_place(pre, angle, rect) ==
    LET transformed == Transformed(original_image, angle, rect)
    IN /\ original_image' = transformed
       /\ proxy_image' = _create_proxy(transformed)
       /\ process_image(transformed, params)

\* _apply_transforms, for a pre-transform source that is set.
_apply_transforms(pre, angle, rect) ==
    LET transformed == Transformed(pre, angle, rect)
    IN /\ original_image' = transformed
       /\ proxy_image' = _create_proxy(transformed)
       /\ process_image(transformed, params)

\* The snapshot as it would be if every call took it anew.
FirstTouchAlways == original_image

\* "Store pre-transform if first rotation / crop"
FirstTouch == IF pre_transform_image = None THEN original_image
              ELSE pre_transform_image

\* The angle rotate_image would store if it dropped the sign of its argument.
CoarseAngleUnsigned(angle) == AddMod360(rotation_angle, Abs(angle))

\* The angle rotate_image stores: (self.rotation_angle + angle) % 360
CoarseAngle(angle) == AddMod360(rotation_angle, angle)

\* The body of rotate_image for a loaded image; follow is what becomes of
\* net_zero.
rotate_image(angle, follow) ==
    LET new_angle == CoarseAngle(angle)
    IN IF TransformFails(FirstTouch, new_angle, crop_rect)
       THEN Abort
       ELSE /\ pre_transform_image' = FirstTouch
            /\ rotation_angle' = new_angle
            /\ _apply_transforms(FirstTouch, new_angle, crop_rect)
            /\ net_zero' = follow
            /\ last_call' = "rotate_image"
            /\ UNCHANGED <<crop_rect, rotation_spin, crops, out_vars, params,
                           handler_frame>>

RotateImage(angle) ==
    /\ Idle
    /\ original_image # None
    /\ rotate_image(angle, NoPair)

\* What is remembered of a rotate_image(angle) call: the state before a
\* first call, and that rotate_image(-a) came right after rotate_image(a).
Followed(angle) ==
    IF net_zero.phase = "half" /\ angle = -net_zero.a
    THEN [net_zero EXCEPT !.phase = "done"]
    ELSE [phase |-> "half", a |-> angle, angle0 |-> rotation_angle,
          raster0 |-> original_image, untouched0 |-> pre_transform_image = None]

\* rotate_image, followed for the sake of rotate(a); rotate(-a).
TrackedRotate(angle) ==
    /\ Idle
    /\ original_image # None
    /\ rotate_image(angle, Followed(angle))

\* rotation_spin.valueChanged: the user sets the spin box to a new value.
OnFineRotationChanged(tenths) ==
    /\ Idle
    /\ tenths # rotation_spin
    /\ IF original_image = None
       THEN /\ rotation_spin' = tenths
            /\ UNCHANGED <<raster_vars, pre_transform_image, rotation_angle,
                           crop_rect, crops, out_vars, debounce_vars, params,
                           net_zero, last_call, handler_frame>>
       ELSE IF TransformFails(FirstTouch, SpinValue(tenths), crop_rect)
       THEN Abort
       ELSE /\ rotation_spin' = tenths
            /\ pre_transform_image' = FirstTouch
            /\ rotation_angle' = SpinValue(tenths)
            /\ _apply_transforms(FirstTouch, SpinValue(tenths), crop_rect)
            /\ net_zero' = NoPair
            /\ last_call' = "on_fine_rotation_changed"
            /\ UNCHANGED <<crop_rect, crops, out_vars, params, handler_frame>>

\* int(x * scale_x): selection coordinates scaled to the working raster.
ScaleToImage(v, img, pix) == ScaleBy(v, img, pix)

\* "Check if within bounds"
SelectionOutside(sel) ==
    \/ sel.x < 0
    \/ sel.y < 0
    \/ sel.x + sel.w > pixmap.w
    \/ sel.y + sel.h > pixmap.h

\* The rectangle on_crop_selected stores for a selection given in pixmap
\* coordinates (the label offset already subtracted).
SelectedRect(sel) ==
    Rect(ScaleToImage(sel.x, original_image.w, pixmap.w),
         ScaleToImage(sel.y, original_image.h, pixmap.h),
         ScaleToImage(sel.w, original_image.w, pixmap.w),
         ScaleToImage(sel.h, original_image.h, pixmap.h))

\* on_crop_selected for a selection given in pixmap coordinates; budget
\* is the number of selections the session may accept.
on_crop_selected(sel, budget) ==
    /\ Idle
    /\ sel.w > MinSelection /\ sel.h > MinSelection
    /\ crops < budget
    /\ processed_proxy # None
    /\ pixmap # None
    /\ IF SelectionOutside(sel)
       THEN UNCHANGED vars
       ELSE IF TransformFails(FirstTouch, rotation_angle, SelectedRect(sel))
       THEN Abort
       ELSE /\ pre_transform_image' = FirstTouch
            /\ crop_rect' = SelectedRect(sel)
            /\ crops' = crops + 1
            /\ _apply_transforms(FirstTouch, rotation_angle, SelectedRect(sel))
            /\ net_zero' = NoPair
            /\ last_call' = "on_crop_selected"
            /\ UNCHANGED <<rotation_angle, rotation_spin, out_vars, params,
                           handler_frame>>

OnCropSelected(sel) == on_crop_selected(sel, MaxCrops)

\* clear_crop_btn is enabled exactly while a crop is stored.
ClearCrop ==
    /\ Idle
    /\ crop_rect # None
    /\ IF pre_transform_image = None
       THEN /\ crop_rect' = None
            /\ UNCHANGED <<raster_vars, pre_transform_image, rotation_angle,
                           rotation_spin, crops, out_vars, debounce_vars,
                           params, net_zero, last_call, handler_frame>>
       ELSE IF TransformFails(pre_transform_image, rotation_angle, None)
       THEN Abort
       ELSE /\ crop_rect' = None
            /\ _apply_transforms(pre_transform_image, rotation_angle, None)
            /\ net_zero' = NoPair
            /\ last_call' = "clear_crop"
            /\ UNCHANGED <<pre_transform_image, rotation_angle, rotation_spin,
                           crops, out_vars, params, handler_frame>>

\* reset_transforms as it would be without "Restore original": the state
\* is reset, the working raster stays as transformed.
ResetTransformsKeepsRaster ==
    /\ Idle
    /\ IF pre_transform_image = None
       THEN UNCHANGED vars
       ELSE /\ rotation_angle' = Zero
            /\ crop_rect' = None
            /\ rotation_spin' = 0
            /\ pre_transform_image' = None
            /\ process_image(original_image, params)
            /\ net_zero' = NoPair
            /\ last_call' = "reset_transforms"
            /\ UNCHANGED <<raster_vars, crops, out_vars, params,
                           handler_frame>>

\* reset_transforms.  rotation_spin.setValue(0) emits valueChanged when the
\* spin box held another value; on_fine_rotation_changed(0) then replays the
\* untransformed source before the handler restores it.
ResetTransforms ==
    /\ Idle
    /\ IF pre_transform_image = None
       THEN UNCHANGED vars
       ELSE IF _create_proxy(pre_transform_image) = ResizeError
       THEN Abort
       ELSE /\ rotation_angle' = Zero
            /\ crop_rect' = None
            /\ rotation_spin' = 0
            /\ original_image' = pre_transform_image
            /\ pre_transform_image' = None
            /\ proxy_image' = _create_proxy(pre_transform_image)
            /\ process_image(pre_transform_image, params)
            /\ net_zero' = NoPair
            /\ last_call' = "reset_transforms"
            /\ UNCHANGED <<crops, out_vars, params, handler_frame>>

\* load_image with a file chosen and decoded.  rotation_spin.setValue(0)
\* emits valueChanged when the spin box held another value, and
\* on_fine_rotation_changed(0) then snapshots the new raster; an exception
\* from _create_proxy inside the try block is caught after the fields
\* before it were assigned.
LoadImage(file) ==
    /\ Idle
    /\ IF rotation_spin # 0
       THEN IF _create_proxy(file) = ResizeError
            THEN Abort
            ELSE /\ original_image' = file
                 /\ rotation_angle' = Zero
                 /\ crop_rect' = None
                 /\ pre_transform_image' = file
                 /\ rotation_spin' = 0
                 /\ proxy_image' = _create_proxy(file)
                 /\ processed_image' = None
                 /\ processed_proxy' = None
                 /\ process_image(file, params)
                 /\ net_zero' = NoPair
                 /\ last_call' = "load_image"
                 /\ UNCHANGED <<crops, pixmap, params, handler_frame>>
       ELSE IF _create_proxy(file) = ResizeError
            THEN /\ original_image' = file
                 /\ rotation_angle' = Zero
                 /\ crop_rect' = None
                 /\ pre_transform_image' = None
                 /\ net_zero' = NoPair
                 /\ last_call' = "load_image failed"
                 /\ UNCHANGED <<proxy_image, rotation_spin, crops, out_vars,
                                debounce_vars, params, handler_frame>>
            ELSE /\ original_image' = file
                 /\ rotation_angle' = Zero
                 /\ crop_rect' = None
                 /\ pre_transform_image' = None
                 /\ proxy_image' = _create_proxy(file)
                 /\ processed_image' = None
                 /\ processed_proxy' = None
                 /\ process_image(file, params)
                 /\ net_zero' = NoPair
                 /\ last_call' = "load_image"
                 /\ UNCHANGED <<rotation_spin, crops, pixmap, params,
                                handler_frame>>

(***************************************************************************)
(* _do_process                                                             *)
(***************************************************************************)
\* debounce_timer.timeout: _do_process is entered.  The timer is single
\* shot, so it is inactive afterwards.
Timeout ==
    /\ pc = "loop"
    /\ timer = 0
    /\ timer' = -1
    /\ IF is_processing
       THEN UNCHANGED <<is_processing, pc, burst, run_params, backlog, run_log>>
       ELSE /\ is_processing' = TRUE
            /\ pc' = "do_process"
            /\ burst' = IF burst = "pending" THEN "ran" ELSE "extra"
            /\ run_params' = params
            /\ backlog' = FALSE
            /\ run_log' = "none"
    /\ UNCHANGED <<raster_vars, transform_vars, out_vars, save_vars,
                   since_event, coalesced, event_params, qt_queue, params,
                   net_zero, last_call, th_vars, cp_vars, ep_vars, lib_vars>>

\* The limit taken as inclusive.
ProcessedUpToLimit(image) == image.h * image.w <= FULL_RES_LIMIT

\* "if img_size < 5_000_000"
ProcessedImmediately(image) == image.h * image.w < FULL_RES_LIMIT

\* What the body of _do_process leaves in processed_proxy, processed_image.
RunProxy == IF proxy_image # None
            THEN apply_edit_pipeline(proxy_image, params)
            ELSE processed_proxy

RunFull == IF original_image = None THEN processed_image
           ELSE IF ProcessedImmediately(original_image)
           THEN apply_edit_pipeline(original_image, params)
           ELSE None

\* display_image's display_source after the run.
DisplaySource == IF RunProxy # None THEN RunProxy ELSE RunFull

\* The flag as it would be left by a call without the finally clause.
is_processing_left_set == TRUE

\* "finally: self.is_processing = False"
is_processing_after_run == FALSE

\* The body of _do_process up to its finally clause.  An exception from
\* display_image is caught after both outputs were stored.
DoProcess ==
    /\ pc = "do_process"
    /\ processed_proxy' = RunProxy
    /\ processed_image' = RunFull
    /\ pixmap' = IF DisplaySource = None THEN pixmap
                 ELSE IF DisplaySize(DisplaySource) = ResizeError THEN pixmap
                 ELSE DisplaySize(DisplaySource)
    /\ is_processing' = is_processing_after_run
    /\ run_params' = None
    /\ pc' = "loop"
    /\ run_log' = "stored"
    /\ UNCHANGED <<raster_vars, transform_vars, save_vars, debounce_vars,
                   backlog, qt_queue, params, net_zero, last_call, th_vars, cp_vars, ep_vars, lib_vars>>

\* The user moves a slider while _do_process occupies the GUI thread: the
\* event waits in Qt's event queue.
PostParamChange(value) ==
    /\ pc = "do_process"
    /\ dialog = "none"
    /\ Len(qt_queue) < MaxQueue
    /\ value # params.gamma
    /\ qt_queue' = Append(qt_queue, value)
    /\ backlog' = TRUE
    /\ UNCHANGED <<raster_vars, transform_vars, out_vars, save_vars,
                   debounce_vars, is_processing, run_params, run_log, params,
                   net_zero, last_call, pc, th_vars, cp_vars, ep_vars, lib_vars>>

\* Back in the event loop, the waiting slider event reaches update_param.
DeliverPosted ==
    /\ pc = "loop"
    /\ dialog = "none"
    /\ qt_queue # <<>>
    /\ update_param(Head(qt_queue))
    /\ qt_queue' = Tail(qt_queue)
    /\ UNCHANGED <<raster_vars, transform_vars, out_vars, save_vars,
                   is_processing, run_params, backlog, run_log, net_zero, last_call, pc,
                   th_vars, cp_vars, ep_vars, lib_vars>>

(***************************************************************************)
(* Full-resolution processing and export                                   *)
(***************************************************************************)
\* process_full_resolution, answered Yes.  full_res_btn is enabled by the
\* first load that reaches it.
ProcessFullResolution ==
    /\ Idle
    /\ dialog = "none"
    /\ original_image # None
    /\ proxy_image # None
    /\ processed_image' = apply_edit_pipeline(original_image, params)
    /\ UNCHANGED <<raster_vars, transform_vars, processed_proxy, pixmap,
                   debounce_vars, params, net_zero, last_call, handler_frame>>

\* save_image up to its first dialog.
SaveImage ==
    /\ Idle
    /\ dialog = "none"
    /\ ~(processed_image = None /\ processed_proxy = None)
    /\ IF processed_image = None
       THEN /\ dialog' = "process_full_resolution"
            /\ UNCHANGED image_to_save
       ELSE /\ dialog' = "save_file"
            /\ image_to_save' = processed_image
    /\ UNCHANGED <<raster_vars, transform_vars, out_vars, written,
                   debounce_vars, run_vars, params, net_zero, last_call, pc,
                   th_vars, cp_vars, ep_vars, lib_vars>>

\* "Process now?" answered: Cancel returns, Yes goes on to
\* QApplication.processEvents().
SaveAnswer(yes) ==
    /\ pc = "loop"
    /\ dialog = "process_full_resolution"
    /\ dialog' = IF yes THEN "process_events" ELSE "none"
    /\ UNCHANGED <<raster_vars, transform_vars, out_vars, image_to_save,
                   written, debounce_vars, run_vars, params, net_zero, last_call, pc,
                   th_vars, cp_vars, ep_vars, lib_vars>>

\* processEvents() has returned: the full output is recomputed and bound to
\* image_to_save, and the file dialog opens.
SaveProcess ==
    /\ pc = "loop"
    /\ dialog = "process_events"
    /\ original_image # None
    /\ processed_image' = apply_edit_pipeline(original_image, params)
    /\ image_to_save' = processed_image'
    /\ dialog' = "save_file"
    /\ UNCHANGED <<raster_vars, transform_vars, processed_proxy, pixmap,
                   written, debounce_vars, run_vars, params, net_zero, last_call, pc,
                   th_vars, cp_vars, ep_vars, lib_vars>>

\* QFileDialog.getSaveFileName returns: a path (the file is written) or "".
SaveFile(chosen) ==
    /\ pc = "loop"
    /\ dialog = "save_file"
    /\ IF chosen
       THEN /\ written' = image_to_save
            /\ dialog' = "saved"
            /\ UNCHANGED image_to_save
       ELSE /\ dialog' = "none"
            /\ image_to_save' = None
            /\ UNCHANGED written
    /\ UNCHANGED <<raster_vars, transform_vars, out_vars, debounce_vars,
                   run_vars, params, net_zero, last_call, pc, th_vars, cp_vars, ep_vars, lib_vars>>

\* The "Image saved successfully!" box is closed; save_image returns.
SaveDone ==
    /\ pc = "loop"
    /\ dialog = "saved"
    /\ dialog' = "none"
    /\ image_to_save' = None
    /\ written' = None
    /\ UNCHANGED <<raster_vars, transform_vars, out_vars, debounce_vars,
                   run_vars, params, net_zero, last_call, pc, th_vars, cp_vars, ep_vars, lib_vars>>

(***************************************************************************)
(* ProcessingThread next to the handlers that assign self.params           *)
(***************************************************************************)
\* Slider positions used while a thread exists.
ThreadGammas == {80, 150}

InitThread ==
    /\ th_heap = <<for_color_negative>>
    /\ th_window = 1
    /\ th_thread = 0
    /\ th_dispatched = None
    /\ th_read = None
    /\ th_pc = "none"

\* ProcessingThread.__init__(image, self.params): self.params = params keeps
\* the caller's object.
ProcessingThread ==
    /\ th_pc # "started"
    /\ th_thread' = th_window
    /\ th_dispatched' = th_heap[th_window]
    /\ th_read' = None
    /\ th_pc' = "started"
    /\ UNCHANGED <<th_heap, th_window, window_vars, cp_vars, ep_vars, lib_vars, pc>>

\* ProcessingThread.run: apply_edit_pipeline(self.image, self.params) reads
\* the fields of the object the thread holds.
run ==
    /\ th_pc = "started"
    /\ th_read' = th_heap[th_thread]
    /\ th_pc' = "finished"
    /\ UNCHANGED <<th_heap, th_window, th_thread, th_dispatched, window_vars,
                   cp_vars, ep_vars, lib_vars, pc>>

\* update_param: setattr(self.params, param_name, value)
SetAttr(value) ==
    /\ value # th_heap[th_window].gamma
    /\ th_heap' = [th_heap EXCEPT ![th_window].gamma = value]
    /\ UNCHANGED <<th_window, th_thread, th_dispatched, th_read, th_pc,
                   window_vars, cp_vars, ep_vars, lib_vars, pc>>

\* on_image_type_changed: self.params.image_type is assigned on the object
\* in use, then self.params is replaced by a new preset object.
ReplaceByType(t) ==
    /\ Len(th_heap) < MaxObjects
    /\ t # th_heap[th_window].image_type
    /\ th_heap' = Append([th_heap EXCEPT ![th_window].image_type = t],
                         Preset(t))
    /\ th_window' = Len(th_heap) + 1
    /\ UNCHANGED <<th_thread, th_dispatched, th_read, th_pc, window_vars,
                   cp_vars, ep_vars, lib_vars, pc>>

\* reset_to_defaults: self.params is replaced by a new preset object.
ReplaceByDefaults ==
    /\ Len(th_heap) < MaxObjects
    /\ th_heap' = Append(th_heap, Preset(th_heap[th_window].image_type))
    /\ th_window' = Len(th_heap) + 1
    /\ UNCHANGED <<th_thread, th_dispatched, th_read, th_pc, window_vars,
                   cp_vars, ep_vars, lib_vars, pc>>

(***************************************************************************)
(* _create_proxy as a function of its argument                             *)
(***************************************************************************)
\* Sides of the rasters and values of proxy_max_dimension it is applied to.
Sides       == {1, 2, 5, 640, 959, 960, 961, 1920, 3837, 10000}
ProxyMaxima == {1, 2, 960}

InitProxy ==
    /\ cp_image \in { Decoded("any", w, h) : w \in Sides, h \in Sides }
    /\ cp_max \in ProxyMaxima
    /\ cp_result = None

\* self.proxy_image = self._create_proxy(image)
CreateProxy ==
    /\ cp_result = None
    /\ cp_result' = CreateProxyOf(cp_image, cp_max)
    /\ UNCHANGED <<cp_image, cp_max, window_vars, th_vars, ep_vars, lib_vars, pc>>

(***************************************************************************)
(* apply_edit_pipeline, stage by stage                                     *)
(***************************************************************************)
\* An array is known by its channel count (1 for a 2-D array) and by the
\* number of in-place writes made to it.  The working array img of the
\* pipeline carries the names of the stages applied to it, whether it still
\* is the caller's array, and whether the caller's array was written to.
Array(channels) == [kind |-> "array", channels |-> channels, writes |-> 0]

Failed(img) == img.kind # "img"

\* An exception leaves the stage.
Raise(img, error) == [img EXCEPT !.kind = error]

\* The working array as a view of the caller's array.
AsFloatView(image) ==
    [kind |-> "img", channels |-> image.channels, applied |-> <<>>,
     aliases_input |-> TRUE, wrote_input |-> FALSE]

\* img = image.astype(np.float32) / 255.0: a new array.
AsFloat(image) ==
    [kind |-> "img", channels |-> image.channels, applied |-> <<>>,
     aliases_input |-> FALSE, wrote_input |-> FALSE]

\* A stage returns a new array (np.clip, or an arithmetic expression).
NewArray(img, stage) ==
    [img EXCEPT !.applied = Append(@, stage), !.aliases_input = FALSE]

\* img[:, :, c] *= k
WriteInPlace(img) == [img EXCEPT !.wrote_input = @ \/ img.aliases_input]

_invert_color_negative(img) == NewArray(img, "_invert_color_negative")

\* The inversion without the conversion to grayscale.
_invert_bw_negative_in_color(img) == NewArray(img, "_invert_bw_negative")

\* cv2.cvtColor(img, cv2.COLOR_RGB2GRAY) takes 3 or 4 channels.
_invert_bw_negative(img) ==
    IF img.channels = 1 THEN NewArray(img, "_invert_bw_negative")
    ELSE IF img.channels \in {3, 4}
    THEN [NewArray(img, "_invert_bw_negative") EXCEPT !.channels = 1]
    ELSE Raise(img, "cv2.error")

_histogram_centering(img) == NewArray(img, "_histogram_centering")

_apply_bw_point(img) == NewArray(img, "_apply_bw_point")

_apply_midtone_correction(img) == NewArray(img, "_apply_midtone_correction")

_apply_dynamic_range(img) == NewArray(img, "_apply_dynamic_range")

\* The white balance and the film profile multiply channels in place; the
\* clip after the white balance and the neutral balance rebind img to a new
\* array.
_apply_color_balance(img, p) ==
    IF img.channels # 3 THEN img
    ELSE LET wb == IF p.enable_white_balance /\ p.wb_temperature # 0
                   THEN [WriteInPlace(img) EXCEPT !.aliases_input = FALSE]
                   ELSE img
             nb == IF p.neutral_balance_strength > 0
                   THEN [wb EXCEPT !.aliases_input = FALSE]
                   ELSE wb
             fp == IF p.film_profile # "NEUTRAL" THEN WriteInPlace(nb) ELSE nb
         IN NewArray(fp, "_apply_color_balance")

_apply_smoothing(img) == NewArray(img, "_apply_smoothing")

_apply_saturation(img) ==
    IF img.channels # 3 THEN img ELSE NewArray(img, "_apply_saturation")

\* img[:, :, 2] of an array with two channels is an IndexError.
_apply_protection(img) ==
    IF img.channels = 2 THEN Raise(img, "IndexError")
    ELSE NewArray(img, "_apply_protection")

_apply_final_curve(img) == NewArray(img, "_apply_final_curve")

\* np.clip(img * 255, 0, 255).astype(np.uint8): what the caller receives.
AsUint8(img, image) ==
    IF Failed(img) THEN [kind |-> img.kind]
    ELSE [kind |-> "array", channels |-> img.channels, writes |-> 0,
          applied |-> img.applied, input |-> image]

\* The steps of apply_edit_pipeline, each on the working array the step
\* before it left; no step runs after an exception.
Step0Inversion(image, p) ==
    IF p.image_type = "COLOR_NEGATIVE" THEN _invert_color_negative(AsFloat(image))
    ELSE IF p.image_type = "BW_NEGATIVE" THEN _invert_bw_negative(AsFloat(image))
    ELSE AsFloat(image)

Step1HistogramCentering(img, p) ==
    IF ~Failed(img) /\ p.enable_histogram_centering
    THEN _histogram_centering(img) ELSE img

Step2BWPoint(img, p) ==
    IF ~Failed(img) /\ p.enable_bw_point THEN _apply_bw_point(img) ELSE img

Step3Midtone(img, p) ==
    IF ~Failed(img) /\ p.enable_midtone
    THEN _apply_midtone_correction(img) ELSE img

Step4DynamicRange(img, p) ==
    IF ~Failed(img) /\ p.enable_dynamic_range
    THEN _apply_dynamic_range(img) ELSE img

Step5ColorBalance(img, p) ==
    IF /\ ~Failed(img)
       /\ p.enable_color_balance /\ p.image_type # "BW_NEGATIVE"
       /\ img.channels = 3
    THEN _apply_color_balance(img, p) ELSE img

Step6Smoothing(img, p) ==
    IF ~Failed(img) /\ p.enable_smoothing THEN _apply_smoothing(img) ELSE img

Step7Saturation(img, p) ==
    IF /\ ~Failed(img)
       /\ p.enable_saturation /\ p.image_type # "BW_NEGATIVE"
       /\ img.channels = 3
    THEN _apply_saturation(img) ELSE img

Step8Protection(img, p) ==
    IF ~Failed(img) /\ p.enable_protection THEN _apply_protection(img) ELSE img

Step9FinalCurve(img, p) ==
    IF ~Failed(img) /\ p.enable_final_curve THEN _apply_final_curve(img) ELSE img

\* The steps with smoothing moved in front of the color balance.
PipelineStagesSmoothingFirst(image, p) ==
    Step9FinalCurve(
     Step8Protection(
      Step7Saturation(
       Step5ColorBalance(
        Step6Smoothing(
         Step4DynamicRange(
          Step3Midtone(
           Step2BWPoint(
            Step1HistogramCentering(
             Step0Inversion(image, p), p), p), p), p), p), p), p), p), p)

\* The body of apply_edit_pipeline: the working array after the last step.
PipelineStages(image, p) ==
    Step9FinalCurve(
     Step8Protection(
      Step7Saturation(
       Step6Smoothing(
        Step5ColorBalance(
         Step4DynamicRange(
          Step3Midtone(
           Step2BWPoint(
            Step1HistogramCentering(
             Step0Inversion(image, p), p), p), p), p), p), p), p), p), p)

\* Arrays and parameter objects the pipeline is called with: every channel
\* count from 1 to 4, every combination of enable flags for every image
\* type, and the three presets.
InputChannels == {1, 2, 3, 4}

FilmProfiles == {"NEUTRAL", "KODAK_PORTRA"}

WhiteBalances == {<<FALSE, 0>>, <<TRUE, 50>>}

\* AutoEditParams(...) with the given image type and enable flags.
WithFlags(t, hc, bw, mt, dr, cb, sm, sa, pr, fc, n, film, wb) ==
    [image_type                 |-> t,
     enable_histogram_centering |-> hc,
     enable_bw_point            |-> bw,
     enable_midtone             |-> mt,
     gamma                      |-> 100,
     enable_dynamic_range       |-> dr,
     enable_color_balance       |-> cb,
     neutral_balance_strength   |-> n,
     film_profile               |-> film,
     enable_white_balance       |-> wb[1],
     wb_temperature             |-> wb[2],
     enable_smoothing           |-> sm,
     enable_saturation          |-> sa,
     enable_protection          |-> pr,
     enable_final_curve         |-> fc]

Presets == {for_color_negative, for_bw_negative, for_positive}

InitPipeline ==
    /\ ep_image \in { Array(c) : c \in InputChannels }
    /\ \/ ep_params \in Presets
       \/ \E t \in ImageType, hc \in BOOLEAN, bw \in BOOLEAN, mt \in BOOLEAN,
             dr \in BOOLEAN, cb \in BOOLEAN, sm \in BOOLEAN, sa \in BOOLEAN,
             pr \in BOOLEAN, fc \in BOOLEAN, n \in {0, 50},
             film \in FilmProfiles, wb \in WhiteBalances :
            ep_params = WithFlags(t, hc, bw, mt, dr, cb, sm, sa, pr, fc, n, film, wb)
    /\ ep_results = <<>>

\* result = apply_edit_pipeline(image, params), on the caller's objects.
ApplyEditPipeline ==
    /\ Len(ep_results) < MaxCalls
    /\ LET img == PipelineStages(ep_image, ep_params)
       IN /\ ep_results' = Append(ep_results, AsUint8(img, ep_image))
          /\ ep_image' = IF img.wrote_input
                         THEN [ep_image EXCEPT !.writes = @ + 1]
                         ELSE ep_image
    /\ UNCHANGED <<ep_params, window_vars, th_vars, cp_vars, lib_vars, pc>>

(***************************************************************************)
(* Functions called on their own: the re-quantization, _apply_bw_point,    *)
(* _histogram_centering and the crop clamp of _apply_transforms            *)
(***************************************************************************)
\* Sample values are integers: img * 255 in tenths of a gray level for the
\* re-quantization, hundredths of the range [0, 1] elsewhere.

\* (img * 255).astype(np.uint8) of one sample: the conversion drops the
\* fraction.
Requantize ==
    /\ fn_args # None /\ fn_args.fn = "astype" /\ fn_result = None
    /\ fn_result' = [value |-> fn_args.scaled \div 10]
    /\ UNCHANGED <<fn_args, ig_vars, window_vars, th_vars, cp_vars, ep_vars, pc>>

\* _apply_bw_point on the percentiles of each channel: np.clip of the
\* black and white points, then one test, np.any(white_point >
\* black_point), for all channels together.  The result tells whether
\* the division ran and by what each channel was divided.
BWPointCall ==
    /\ fn_args # None /\ fn_args.fn = "_apply_bw_point" /\ fn_result = None
    /\ LET cp    == fn_args.clip_protection
           n     == Len(fn_args.black)
           black == [c \in 1..n |-> Min(Max(fn_args.black[c], 0), cp)]
           white == [c \in 1..n |-> Min(Max(fn_args.white[c], 100 - cp), 100)]
       IN fn_result' =
             [scaled  |-> \E c \in 1..n : white[c] > black[c],
              divisor |-> [c \in 1..n |-> white[c] - black[c]]]
    /\ UNCHANGED <<fn_args, ig_vars, window_vars, th_vars, cp_vars, ep_vars, pc>>

\* _histogram_centering on three samples: shift = target_midpoint -
\* np.mean(img), whatever mid_detection_method says.  The result is the
\* shift times the number of samples.
HistogramCenteringCall ==
    /\ fn_args # None /\ fn_args.fn = "_histogram_centering" /\ fn_result = None
    /\ LET img == fn_args.img
       IN fn_result' =
             [shift_times_n |-> Len(img) * fn_args.target_midpoint
                                   - (img[1] + img[2] + img[3])]
    /\ UNCHANGED <<fn_args, ig_vars, window_vars, th_vars, cp_vars, ep_vars, pc>>

\* The crop of _apply_transforms on a rotated raster of img_w x img_h.
ClampCropCall ==
    /\ fn_args # None /\ fn_args.fn = "crop" /\ fn_result = None
    /\ fn_result' = ClampCrop(fn_args.crop_rect, fn_args.img_w, fn_args.img_h)
    /\ UNCHANGED <<fn_args, ig_vars, window_vars, th_vars, cp_vars, ep_vars, pc>>

\* The arguments: samples on both sides of a half gray level; percentiles
\* of one or three channels with clip_protection below, at and above 0.5;
\* three samples with either statistic selected; crop rectangles with
\* negative, zero and oversized entries on rasters of 1 to 4 pixels a side.
InitCalls ==
    /\ groups = <<>>
    /\ ig_result = None
    /\ fn_result = None
    /\ \/ \E v \in {0, 4, 6, 10, 1276, 2544, 2546, 2549, 2550} :
            fn_args = [fn |-> "astype", scaled |-> v]
       \/ \E n \in {1, 3}, cp \in {2, 50, 60} :
            \E b \in [1..n -> {0, 50}], w \in [1..n -> {50, 100}] :
               fn_args = [fn |-> "_apply_bw_point", black |-> b, white |-> w,
                          clip_protection |-> cp]
       \/ \E img \in [1..3 -> {0, 30, 90}], m \in {"mean", "median"} :
            fn_args = [fn |-> "_histogram_centering", img |-> img,
                       target_midpoint |-> 50, mid_detection_method |-> m]
       \/ \E x \in {-5, 0, 1, 3, 10}, y \in {-5, 0, 3}, w \in {-5, 0, 1, 3, 10},
             h \in {0, 2, 10}, img_w \in {1, 4}, img_h \in {1, 3} :
            fn_args = [fn |-> "crop", crop_rect |-> Rect(x, y, w, h),
                       img_w |-> img_w, img_h |-> img_h]

(***************************************************************************)
(* ImageGroup and ImageGroupManager (image_group.py)                       *)
(***************************************************************************)
\* groups maps each registered name to the image_paths list of its group.
\* ig_result is the call made last with what it returned or raised.

\* add_image without the membership test.
AddImageAlways(name, path) ==
    /\ name \in DOMAIN groups
    /\ groups' = [groups EXCEPT ![name] = Append(@, path)]
    /\ ig_result' = [call |-> "add_image", name |-> name, path |-> path,
                     value |-> None]
    /\ UNCHANGED <<fn_vars, window_vars, th_vars, cp_vars, ep_vars, pc>>

\* group.add_image(path), for the group registered as name.
AddImage(name, path) ==
    /\ name \in DOMAIN groups
    /\ groups' = IF \E i \in 1..Len(groups[name]) : groups[name][i] = path
                 THEN groups
                 ELSE [groups EXCEPT ![name] = Append(@, path)]
    /\ ig_result' = [call |-> "add_image", name |-> name, path |-> path,
                     value |-> None]
    /\ UNCHANGED <<fn_vars, window_vars, th_vars, cp_vars, ep_vars, pc>>

\* group.remove_image(path): list.remove drops the first occurrence.
RemoveImage(name, path) ==
    /\ name \in DOMAIN groups
    /\ LET paths   == groups[name]
           present == \E i \in 1..Len(paths) : paths[i] = path
           first   == CHOOSE i \in 1..Len(paths) :
                          /\ paths[i] = path
                          /\ \A j \in 1..(i - 1) : paths[j] # path
       IN /\ groups' = IF present
                       THEN [groups EXCEPT ![name] =
                               SubSeq(paths, 1, first - 1)
                                   \o SubSeq(paths, first + 1, Len(paths))]
                       ELSE groups
          /\ ig_result' = [call |-> "remove_image", name |-> name,
                           path |-> path, value |-> present]
    /\ UNCHANGED <<fn_vars, window_vars, th_vars, cp_vars, ep_vars, pc>>

\* create_group that replaces a registered group.
CreateGroupReplacing(name) ==
    /\ groups' = [n \in DOMAIN groups \cup {name} |->
                     IF n = name THEN <<>> ELSE groups[n]]
    /\ ig_result' = [call |-> "create_group", name |-> name, path |-> None,
                     value |-> "ImageGroup"]
    /\ UNCHANGED <<fn_vars, window_vars, th_vars, cp_vars, ep_vars, pc>>

\* manager.create_group(name)
CreateGroup(name) ==
    /\ IF name \in DOMAIN groups
       THEN /\ groups' = groups
            /\ ig_result' = [call |-> "create_group", name |-> name,
                             path |-> None, value |-> "ValueError"]
       ELSE /\ groups' = [n \in DOMAIN groups \cup {name} |->
                             IF n = name THEN <<>> ELSE groups[n]]
            /\ ig_result' = [call |-> "create_group", name |-> name,
                             path |-> None, value |-> "ImageGroup"]
    /\ UNCHANGED <<fn_vars, window_vars, th_vars, cp_vars, ep_vars, pc>>

\* manager.delete_group(name)
DeleteGroup(name) ==
    /\ groups' = IF name \in DOMAIN groups
                 THEN [n \in DOMAIN groups \ {name} |-> groups[n]]
                 ELSE groups
    /\ ig_result' = [call |-> "delete_group", name |-> name, path |-> None,
                     value |-> name \in DOMAIN groups]
    /\ UNCHANGED <<fn_vars, window_vars, th_vars, cp_vars, ep_vars, pc>>

(***************************************************************************)
(* Inputs and specifications                                               *)
(***************************************************************************)
\* The rotate buttons, and the spin box values used (in tenths of a degree).
CoarseAngles == {-90, 90, 180}
FineAngles   == {-100, 0}

\* Crop selections, in pixmap coordinates: an inner one, one along the
\* right edge, one that leaves the pixmap.
Selections ==
    { Rect(100, 50, 200, 150), Rect(520, 20, 50, 300), Rect(500, 300, 200, 100) }

\* Scheduling and export: every handler, the transforms with one input each.
Next ==
    \/ \E file \in ExportFiles : LoadImage(file)
    \/ \E value \in GammaChoices : UpdateParam(value)
    \/ \E t \in {"COLOR_NEGATIVE", "BW_NEGATIVE"} : OnImageTypeChanged(t)
    \/ ResetToDefaults
    \/ ApplyButton
    \/ RotateImage(90)
    \/ Timeout
    \/ DoProcess
    \/ \E value \in GammaChoices : PostParamChange(value)
    \/ DeliverPosted
    \/ ProcessFullResolution
    \/ SaveImage
    \/ \E yes \in BOOLEAN : SaveAnswer(yes)
    \/ SaveProcess
    \/ \E chosen \in BOOLEAN : SaveFile(chosen)
    \/ SaveDone
    \/ Tick

Spec == Init /\ [][Next]_vars

\* The transform stack and the proxy: every transform handler with all its
\* inputs, the parameters left at their initial preset.
NextTransform ==
    \/ \E file \in TransformFiles : LoadImage(file)
    \/ \E angle \in CoarseAngles : RotateImage(angle)
    \/ \E tenths \in FineAngles : OnFineRotationChanged(tenths)
    \/ \E sel \in Selections : OnCropSelected(sel)
    \/ ClearCrop
    \/ ResetTransforms
    \/ Timeout
    \/ DoProcess
    \/ Tick

SpecTransform == Init /\ [][NextTransform]_vars

\* Rotations followed call by call: rotate_image with an angle and with its
\* opposite, from states that fine rotation and a first crop have prepared.
NetZeroAngles    == {-90, 90}
RotateFineAngles == {0, 1}
RotateFiles      == { f \in Files : f.src = "medium" }
RotateSelections == { Rect(100, 50, 200, 150) }

NextRotate ==
    \/ \E file \in RotateFiles : LoadImage(file)
    \/ \E angle \in NetZeroAngles : TrackedRotate(angle)
    \/ \E tenths \in RotateFineAngles : OnFineRotationChanged(tenths)
    \/ \E sel \in RotateSelections : crop_rect = None /\ OnCropSelected(sel)
    \/ Timeout
    \/ DoProcess
    \/ Tick

SpecRotate == Init /\ [][NextRotate]_vars

\* A ProcessingThread created, run, and the caller's handlers in between.
NextThread ==
    \/ ProcessingThread
    \/ run
    \/ \E value \in ThreadGammas : SetAttr(value)
    \/ \E t \in ImageType : ReplaceByType(t)
    \/ ReplaceByDefaults

InitWithThread ==
    InitWindow /\ InitThread /\ InitProxyIdle /\ InitPipelineIdle /\ InitLibraryIdle

SpecThread == InitWithThread /\ [][NextThread]_vars

\* _create_proxy applied once to each input.
NextProxy == CreateProxy

InitWithProxy ==
    InitWindow /\ InitThreadIdle /\ InitProxy /\ InitPipelineIdle /\ InitLibraryIdle

SpecProxy == InitWithProxy /\ [][NextProxy]_vars

\* Files of 4,997,500, of exactly 5,000,000 and of 6,000,000 pixels, and
\* one no proxy can be made of.
FullResFiles ==
    { Decoded("below", 2500, 1999),
      Decoded("exact", 2500, 2000),
      Decoded("large", 3000, 2000),
      Decoded("thin", 10000, 5) }

\* _do_process around the full-resolution limit, with the explicit
\* full-resolution run.
NextFullRes ==
    \/ \E file \in FullResFiles : LoadImage(file)
    \/ \E value \in GammaChoices : UpdateParam(value)
    \/ ResetToDefaults
    \/ Timeout
    \/ DoProcess
    \/ ProcessFullResolution
    \/ Tick

SpecFullRes == Init /\ [][NextFullRes]_vars

\* A crop of a crop: one file, selections made one after the other on
\* what is displayed.
NextCrop ==
    \/ \E file \in { f \in Files : f.src = "medium" } : LoadImage(file)
    \/ \E sel \in Selections : on_crop_selected(sel, MaxRecrops)
    \/ Timeout
    \/ DoProcess
    \/ Tick

SpecCrop == Init /\ [][NextCrop]_vars

\* A session of finitely many inputs: one file is opened, and gamma is
\* only raised.  The event loop delivers a due timeout, the clock advances
\* and a run that was entered returns.
RaisedGammas == {120, 150, 200}

NextRuns ==
    \/ \E file \in Files : original_image = None /\ LoadImage(file)
    \/ \E value \in RaisedGammas : value > params.gamma /\ UpdateParam(value)
    \/ Timeout
    \/ DoProcess
    \/ Tick

SpecRuns ==
    /\ Init /\ [][NextRuns]_vars
    /\ WF_vars(Tick) /\ WF_vars(Timeout) /\ WF_vars(DoProcess)

\* A manager with up to two groups over three paths.
NextGroups ==
    \/ \E name \in {"scans", "prints"} : CreateGroup(name)
    \/ \E name \in {"scans", "prints"} : DeleteGroup(name)
    \/ \E name \in {"scans", "prints"}, path \in {"1.jpg", "2.jpg", "3.jpg"} :
          AddImage(name, path)
    \/ \E name \in {"scans", "prints"}, path \in {"1.jpg", "2.jpg", "3.jpg"} :
          RemoveImage(name, path)

SpecGroups == Init /\ [][NextGroups]_vars

\* Each of the functions applied once to each of its arguments.
NextCalls ==
    \/ Requantize
    \/ BWPointCall
    \/ HistogramCenteringCall
    \/ ClampCropCall

InitWithCalls ==
    InitWindow /\ InitThreadIdle /\ InitProxyIdle /\ InitPipelineIdle /\ InitCalls

SpecCalls == InitWithCalls /\ [][NextCalls]_vars

\* apply_edit_pipeline called on the same objects, up to MaxCalls times.
NextPipeline == ApplyEditPipeline

InitWithPipeline ==
    InitWindow /\ InitThreadIdle /\ InitProxyIdle /\ InitPipeline /\ InitLibraryIdle

SpecPipeline == InitWithPipeline /\ [][NextPipeline]_vars

(***************************************************************************)
(* Claims                                                                  *)
(***************************************************************************)
\* C1 (Spec): debounce coalescing.  Parameter-change events less than the
\* debounce window apart lead to one _do_process run: no run starts without
\* an event before it, the timer stays armed until that run, the run starts
\* only once the window has elapsed since the last event, it reads the
\* parameters in force after the last event, and what it stores is the
\* pipeline output for those parameters.
DebounceCoalescing ==
    /\ burst # "extra"
    /\ burst = "pending" =>
          /\ timer >= 0
          /\ timer = 0 => since_event >= DEBOUNCE_MS
    /\ pc = "do_process" =>
          /\ burst = "ran"
          /\ since_event >= DEBOUNCE_MS
          /\ run_params = event_params
          /\ params = event_params
    /\ (burst = "ran" /\ pc = "loop" /\ proxy_image # None) =>
          processed_proxy = apply_edit_pipeline(proxy_image, event_params)

\* A run under way for a burst of at least two events, the last of which
\* changed a parameter and restarted the running timer.
DebounceCoalescingReached ==
    /\ pc = "do_process"
    /\ coalesced
    /\ run_params # for_color_negative

\* C2 (Spec): export never writes proxy output.  Whenever save_image has
\* written a file, the raster written is a pipeline output of a raster that
\* was not downscaled, with the height and width of original_image.
ExportWritesFullResolution ==
    dialog = "saved" =>
        /\ written.kind = "processed"
        /\ ~written.input.resampled
        /\ written.w = original_image.w
        /\ written.h = original_image.h

\* C3 (Spec): export freshness.  Whenever save_image has written a file, the
\* raster written is apply_edit_pipeline(original_image, params) for the
\* working raster and the parameters current at that moment.
ExportIsFresh ==
    dialog = "saved" => written = apply_edit_pipeline(original_image, params)

\* C4 (Spec): at most one run is in flight, and a run requested while
\* another is active starts immediately after that run completes: once the
\* run during which a request arrived is over and the request has been
\* handled, the requested run starts before any time passes.
RequestedRunStartsAtOnce ==
    /\ is_processing => pc = "do_process"
    /\ (backlog /\ pc = "loop" /\ qt_queue = <<>>) => since_event = 0

\* C5 (Spec): the result of a run is stored only if no parameter change
\* arrived after the run was dispatched.
SupersededResultDiscarded ==
    ~(run_log = "stored" /\ backlog)

\* C6 (SpecThread): a dispatched run reads the parameter values of its
\* dispatch, whatever the handlers assign afterwards.
RunReadsSnapshot ==
    th_pc = "finished" => th_read = th_dispatched

\* C7 (SpecTransform): proxy consistency.  Between handler invocations, with
\* an image loaded, proxy_image is _create_proxy(original_image).
ProxyConsistent ==
    (pc = "loop" /\ original_image # None) =>
        proxy_image = _create_proxy(original_image)

\* C8 (SpecProxy): proxy bound.  _create_proxy returns a raster whose larger
\* side is at most M, and returns its argument exactly when the argument's
\* larger side is at most M.
ProxyBound ==
    cp_result # None =>
        /\ cp_result.kind = "raster"
        /\ Max(cp_result.w, cp_result.h) <= cp_max
        /\ (cp_result = cp_image) <=> (Max(cp_image.w, cp_image.h) <= cp_max)

\* C9 (SpecTransform): replay invariant.  Whenever pre_transform_image is
\* set, original_image is pre_transform_image rotated by rotation_angle and
\* then cropped to crop_rect, computed from scratch.
ReplayInvariant ==
    pre_transform_image # None =>
        original_image = Transformed(pre_transform_image, rotation_angle,
                                     crop_rect)

\* A working raster replayed with a fine rotation and a crop at once.
ReplayInvariantReached ==
    /\ pc = "loop"
    /\ pre_transform_image # None
    /\ rotation_angle.tenths % 900 # 0
    /\ crop_rect # None
    /\ original_image # pre_transform_image

\* C10 (SpecRotate), as stated: rotate_image(a) followed by rotate_image(-a)
\* leaves rotation_angle equal modulo 360 to its value before the two calls
\* and the working raster equal to the one before them.
NetZeroRotationExact ==
    net_zero.phase = "done" =>
        /\ EqualMod360(rotation_angle, net_zero.angle0)
        /\ original_image = net_zero.raster0

\* C10 (SpecRotate), as the code has it: after rotate_image(a) and
\* rotate_image(-a), rotation_angle equals its value before the two calls
\* modulo 360 to within 2^-42 degree of float rounding, and exactly when
\* that value was a whole number of degrees; the working raster is the
\* replay of the same pre-transform source and crop at that angle, equal to
\* the raster before the calls whenever the angle is the same float as
\* before; starting from Untouched it is exactly the pre-rotation raster.
NetZeroRotation ==
    net_zero.phase = "done" =>
        /\ (rotation_angle.tenths - net_zero.angle0.tenths) % 3600 = 0
        /\ Abs(rotation_angle.dev - net_zero.angle0.dev) <= 5 * Pow2(14)
        /\ net_zero.angle0.tenths % 10 = 0 =>
               EqualMod360(rotation_angle, net_zero.angle0)
        /\ original_image = Transformed(pre_transform_image, rotation_angle,
                                        crop_rect)
        /\ rotation_angle = net_zero.angle0 =>
               original_image = net_zero.raster0
        /\ net_zero.untouched0 =>
               /\ rotation_angle = Zero
               /\ original_image = net_zero.raster0

\* rotate_image(a); rotate_image(-a) made on a cropped raster that stood at
\* a fraction of a degree.
NetZeroRotationReached ==
    /\ net_zero.phase = "done"
    /\ net_zero.angle0.tenths % 10 # 0
    /\ crop_rect # None

\* C11 (SpecTransform): reset_transforms from Touched returns to Untouched:
\* when it has returned, original_image is the pre-transform snapshot it
\* found, rotation_angle is 0, crop_rect and pre_transform_image are None;
\* from Untouched it changes no field of the session.
ResetReturnsToUntouched ==
    [][ResetTransforms =>
          IF pre_transform_image = None
          THEN UNCHANGED <<raster_vars, transform_vars, out_vars, params>>
          ELSE pc' = "loop" =>
                  /\ original_image' = pre_transform_image
                  /\ rotation_angle' = Zero
                  /\ crop_rect' = None
                  /\ pre_transform_image' = None]_vars

\* reset_transforms has returned and left an untouched raster, after a crop
\* had been accepted.
ResetReturnsToUntouchedReached ==
    /\ last_call = "reset_transforms"
    /\ pc = "loop"
    /\ crops > 0
    /\ pre_transform_image = None

\* C12 (SpecTransform): first-touch snapshot.  A rotate_image,
\* on_fine_rotation_changed or accepted on_crop_selected call made while
\* pre_transform_image is None stores the working raster of that moment as
\* pre_transform_image; every rotate, crop or clear-crop call made while it
\* is set leaves it unchanged; it changes otherwise only through
\* reset_transforms or load_image.
FirstTouchSnapshot ==
    [][LET acted == <<raster_vars, transform_vars>>' #
                        <<raster_vars, transform_vars>>
       IN /\ (acted /\ last_call' \in {"rotate_image",
                                       "on_fine_rotation_changed",
                                       "on_crop_selected"}) =>
                 IF pre_transform_image # None
                 THEN pre_transform_image' = pre_transform_image
                 ELSE \/ pre_transform_image' = original_image
                      \/ /\ pre_transform_image' = None
                         /\ UNCHANGED <<raster_vars, rotation_angle,
                                        crop_rect>>
          /\ (acted /\ last_call' = "clear_crop") =>
                 pre_transform_image' = pre_transform_image
          /\ pre_transform_image' # pre_transform_image =>
                 \/ pre_transform_image = None
                 \/ last_call' \in {"reset_transforms", "load_image",
                                    "load_image failed"}]_vars

\* A snapshot that has outlived a rotation and a crop made after it.
FirstTouchSnapshotReached ==
    /\ pc = "loop"
    /\ last_call \in {"rotate_image", "on_fine_rotation_changed",
                      "on_crop_selected", "clear_crop"}
    /\ pre_transform_image # None
    /\ rotation_angle # Zero
    /\ crop_rect # None
    /\ original_image # pre_transform_image

\* C13 (SpecPipeline): every call of apply_edit_pipeline that returns has
\* applied exactly the stages that are enabled and eligible, in the order
\* inversion, histogram centering, black/white point, midtone correction,
\* dynamic range, color balance, smoothing, saturation, protection, final
\* curve; the inversion runs exactly for the two negative image types,
\* whatever the flags are.
FixedStageOrder ==
    \A i \in 1..Len(ep_results) :
        LET p     == ep_params
            color == p.image_type # "BW_NEGATIVE" /\ ep_image.channels = 3
            slots ==
                << <<IF p.image_type = "BW_NEGATIVE" THEN "_invert_bw_negative"
                     ELSE "_invert_color_negative",
                     p.image_type \in {"COLOR_NEGATIVE", "BW_NEGATIVE"}>>,
                   <<"_histogram_centering", p.enable_histogram_centering>>,
                   <<"_apply_bw_point", p.enable_bw_point>>,
                   <<"_apply_midtone_correction", p.enable_midtone>>,
                   <<"_apply_dynamic_range", p.enable_dynamic_range>>,
                   <<"_apply_color_balance", p.enable_color_balance /\ color>>,
                   <<"_apply_smoothing", p.enable_smoothing>>,
                   <<"_apply_saturation", p.enable_saturation /\ color>>,
                   <<"_apply_protection", p.enable_protection>>,
                   <<"_apply_final_curve", p.enable_final_curve>> >>
            on    == SelectSeq(slots, LAMBDA s : s[2])
        IN ep_results[i].kind = "array" =>
               ep_results[i].applied = [k \in 1..Len(on) |-> on[k][1]]

FixedStageOrderReached ==
    /\ Len(ep_results) > 0
    /\ ~ep_params.enable_histogram_centering
    /\ ~ep_params.enable_protection
    /\ ep_results[1].kind = "array"
    /\ ep_results[1].applied =
           <<"_invert_color_negative", "_apply_bw_point", "_apply_midtone_correction",
             "_apply_dynamic_range", "_apply_color_balance", "_apply_smoothing",
             "_apply_saturation", "_apply_final_curve">>

\* C14 (SpecPipeline): the color balance and the saturation stage are not
\* applied when image_type is BW_NEGATIVE or the input is not 3-channel,
\* whatever enable_color_balance and enable_saturation say; the preset
\* for_bw_negative has both flags false; and a BW_NEGATIVE run on a
\* 3-channel input returns a single-channel array.
ColorStagesGated ==
    /\ ~for_bw_negative.enable_color_balance
    /\ ~for_bw_negative.enable_saturation
    /\ \A i \in 1..Len(ep_results) :
          LET out == ep_results[i]
          IN out.kind = "array" =>
               /\ (ep_params.image_type = "BW_NEGATIVE" \/ ep_image.channels # 3) =>
                     \A k \in 1..Len(out.applied) :
                         out.applied[k] \notin {"_apply_color_balance", "_apply_saturation"}
               /\ (ep_params.image_type = "BW_NEGATIVE" /\ ep_image.channels = 3) =>
                     out.channels = 1

ColorStagesGatedReached ==
    /\ Len(ep_results) > 0
    /\ ep_params.image_type = "BW_NEGATIVE"
    /\ ep_params.enable_color_balance /\ ep_params.enable_saturation
    /\ ep_image.channels = 3
    /\ ep_results[1].kind = "array" /\ ep_results[1].channels = 1
    /\ Len(ep_results[1].applied) > 1

\* C15 (SpecPipeline): a call of apply_edit_pipeline with an array whose
\* channel count is neither 1 nor 3 is rejected: the caller receives a
\* failure and no output array.
InvalidInputRejected ==
    \A i \in 1..Len(ep_results) :
        ep_image.channels \notin {1, 3} => ep_results[i].kind # "array"

StateUnchangedOnFailure ==
    [][(\/ /\ \E file \in TransformFiles : LoadImage(file)
           /\ last_call' = "load_image failed"
        \/ \E sel \in Selections : OnCropSelected(sel) /\ SelectionOutside(sel))
       => UNCHANGED <<original_image, proxy_image, pre_transform_image,
                      rotation_angle, crop_rect, processed_proxy,
                      processed_image>>]_vars

\* C18 (SpecFullRes): every _do_process run on a loaded image that ends
\* without an exception leaves in processed_proxy the pipeline output of
\* proxy_image, and in processed_image the pipeline output of
\* original_image when height x width is below 5,000,000 and None
\* otherwise, at exactly 5,000,000 pixels too, whatever processed_image
\* held before (a process_full_resolution result included).
FullResolutionPolicy ==
    [][(/\ DoProcess
        /\ original_image # None
        /\ DisplaySource # None => DisplaySize(DisplaySource) # ResizeError)
       => /\ processed_proxy' = apply_edit_pipeline(proxy_image, params)
          /\ processed_image' =
                IF original_image.h * original_image.w < 5000000
                THEN apply_edit_pipeline(original_image, params)
                ELSE None]_vars

FullResolutionPolicyReached ==
    /\ run_log = "stored"
    /\ pc = "loop"
    /\ original_image # None
    /\ original_image.h * original_image.w = 5000000
    /\ processed_image = None
    /\ processed_proxy = apply_edit_pipeline(proxy_image, params)
    /\ params.gamma # for_color_negative.gamma

\* C19 (SpecTransform): after a load_image call that completes, the
\* transform stack is Untouched for the new image: rotation_angle = 0,
\* crop_rect = None and pre_transform_image = None, whatever the rotation,
\* the spin box value and the crop of the session before were.
LoadLeavesUntouched ==
    [][(/\ \E file \in TransformFiles : LoadImage(file)
        /\ last_call' = "load_image"
        /\ pc' = "loop")
       => /\ rotation_angle' = Zero
          /\ crop_rect' = None
          /\ pre_transform_image' = None]_vars

\* C20 (Spec): after a load_image call that completes, params is the
\* factory preset of the current image type, so edits made on the image
\* loaded before do not reach the new image.
LoadStartsFromPreset ==
    [][(/\ \E file \in ExportFiles : LoadImage(file)
        /\ last_call' = "load_image"
        /\ pc' = "loop")
       => params' = Preset(params'.image_type)]_vars

\* C21 (SpecCalls): the re-quantization rounds to the nearest gray level:
\* a sample whose final value times 255 lies f tenths above a whole level
\* becomes that level for f < 5 and the next level for f > 5, and every
\* output sample lies in 0..255.
RequantizeRoundsToNearest ==
    (fn_args # None /\ fn_args.fn = "astype" /\ fn_result # None) =>
        /\ fn_result.value \in 0..255
        /\ fn_result.value = (fn_args.scaled + 5) \div 10

\* C22 (SpecGroups): an ImageGroup keeps set semantics over its paths: no
\* path is listed twice; add_image of an absent path adds it and raises
\* count() by one, add_image of a present path changes nothing;
\* remove_image returns True exactly when the path was present, and then
\* the path is gone, the other paths stay and count() drops by one;
\* otherwise it returns False and the group is unchanged.
ImageGroupSetSemantics ==
    [][LET r      == ig_result'
           before == groups[r.name]
           after  == groups'[r.name]
           Has(paths, path) == \E i \in 1..Len(paths) : paths[i] = path
       IN /\ \A n \in DOMAIN groups' :
                \A i, j \in 1..Len(groups'[n]) :
                    groups'[n][i] = groups'[n][j] => i = j
          /\ r.call = "add_image" =>
                IF Has(before, r.path) THEN groups' = groups
                ELSE /\ after = Append(before, r.path)
                     /\ Len(after) = Len(before) + 1
          /\ r.call = "remove_image" =>
                /\ r.value = Has(before, r.path)
                /\ ~r.value => groups' = groups
                /\ r.value =>
                      /\ ~Has(after, r.path)
                      /\ Len(after) = Len(before) - 1
                      /\ \A i \in 1..Len(before) :
                            before[i] # r.path => Has(after, before[i])]_vars

ImageGroupSetSemanticsReached ==
    /\ ig_result # None
    /\ ig_result.call = "remove_image"
    /\ ig_result.value = TRUE
    /\ Len(groups[ig_result.name]) = 2

\* C23 (SpecGroups): create_group with a registered name raises ValueError
\* and leaves the manager as it was, the group's images included; with a
\* new name it registers an empty group under that name and changes no
\* other group; delete_group returns True exactly when the name was
\* registered, and afterwards the name is not registered.
ManagerKeepsNamesUnique ==
    [][LET r == ig_result'
       IN /\ r.call = "create_group" =>
                IF r.name \in DOMAIN groups
                THEN r.value = "ValueError" /\ groups' = groups
                ELSE /\ r.value = "ImageGroup"
                     /\ DOMAIN groups' = DOMAIN groups \cup {r.name}
                     /\ groups'[r.name] = <<>>
                     /\ \A n \in DOMAIN groups : groups'[n] = groups[n]
          /\ r.call = "delete_group" =>
                /\ r.value = (r.name \in DOMAIN groups)
                /\ r.name \notin DOMAIN groups'
                /\ \A n \in DOMAIN groups \ {r.name} :
                      n \in DOMAIN groups' /\ groups'[n] = groups[n]]_vars

ManagerKeepsNamesUniqueReached ==
    /\ ig_result # None
    /\ ig_result.call = "create_group"
    /\ ig_result.value = "ValueError"
    /\ Len(groups[ig_result.name]) = 2
    /\ DOMAIN groups = {"scans", "prints"}

\* C24 (SpecTransform): rotation_angle is, modulo 360, the sum of the
\* coarse rotations since the snapshot plus the fine-adjust value.  Step
\* by step: a fine adjustment on a loaded image changes rotation_angle by
\* the change of the spin box value and so keeps the coarse part
\* rotation_angle - rotation_spin, and a coarse rotation keeps the spin
\* box value.  Angles are compared in tenths of a degree.
RotationAccumulates ==
    [][/\ (/\ last_call' = "on_fine_rotation_changed"
           /\ rotation_spin' # rotation_spin
           /\ original_image # None
           /\ pc' = "loop")
          => (rotation_angle'.tenths - rotation_spin') % 3600
                = (rotation_angle.tenths - rotation_spin) % 3600
       /\ (last_call' = "rotate_image" /\ rotation_angle' # rotation_angle)
          => rotation_spin' = rotation_spin]_vars

\* C25 (SpecCalls): _apply_bw_point divides by white - black only where
\* the clamped white point exceeds the clamped black point: whenever the
\* rescaling runs, no channel is divided by zero, for one and for three
\* channels and for clip_protection of 0.5 and more as well.
BWPointNeverDividesByZero ==
    (fn_args # None /\ fn_args.fn = "_apply_bw_point" /\ fn_result # None) =>
        (fn_result.scaled =>
            \A c \in 1..Len(fn_result.divisor) : fn_result.divisor[c] > 0)

\* C26 (SpecCalls): for every stored crop rectangle, with negative, zero
\* or oversized entries too, and every rotated raster of img_w x img_h
\* with both sides at least 1, the rectangle _apply_transforms applies has
\* 0 <= x < img_w, 0 <= y < img_h, 1 <= w <= img_w - x and
\* 1 <= h <= img_h - y.
CropClampedInside ==
    (fn_args # None /\ fn_args.fn = "crop" /\ fn_result # None) =>
        /\ 0 <= fn_result.x /\ fn_result.x < fn_args.img_w
        /\ 0 <= fn_result.y /\ fn_result.y < fn_args.img_h
        /\ 1 <= fn_result.w /\ fn_result.w <= fn_args.img_w - fn_result.x
        /\ 1 <= fn_result.h /\ fn_result.h <= fn_args.img_h - fn_result.y

CropClampedInsideReached ==
    /\ fn_args # None /\ fn_args.fn = "crop" /\ fn_result # None
    /\ fn_args.crop_rect.x < 0 /\ fn_args.crop_rect.y > fn_args.img_h
    /\ fn_args.crop_rect.w > fn_args.img_w /\ fn_args.crop_rect.h = 0
    /\ fn_result = Rect(0, fn_args.img_h - 1, fn_args.img_w, 1)

\* C27 (SpecCalls): histogram centering shifts by target_midpoint minus
\* the selected statistic: the median of the raster with
\* mid_detection_method = "median", its mean with "mean".
CenteringUsesSelectedStatistic ==
    (fn_args # None /\ fn_args.fn = "_histogram_centering" /\ fn_result # None) =>
        LET img    == fn_args.img
            sum    == img[1] + img[2] + img[3]
            median == sum - Max(img[1], Max(img[2], img[3]))
                          - Min(img[1], Min(img[2], img[3]))
        IN fn_result.shift_times_n =
              IF fn_args.mid_detection_method = "median"
              THEN 3 * (fn_args.target_midpoint - median)
              ELSE 3 * fn_args.target_midpoint - sum

\* C28 (SpecCrop): a crop selection refers to the raster the user sees:
\* when on_crop_selected accepts a rectangle r (in the coordinates of the
\* working raster W), the new working raster is the sub-rectangle r of W;
\* when W is itself a crop at (x0, y0) of the source, that is the region
\* at (x0 + r.x, y0 + r.y) of the source, of size r.w x r.h.
CropRefersToDisplayedRaster ==
    [][(last_call' = "on_crop_selected" /\ crops' = crops + 1) =>
          LET r  == crop_rect'
              x0 == IF original_image.crop = None THEN 0 ELSE original_image.crop.x
              y0 == IF original_image.crop = None THEN 0 ELSE original_image.crop.y
          IN /\ original_image'.crop = Rect(x0 + r.x, y0 + r.y, r.w, r.h)
             /\ original_image'.w = r.w
             /\ original_image'.h = r.h]_vars

\* C29 (SpecRuns): the in-flight guard cannot stick: is_processing is true
\* only while a _do_process call is executing, no due timeout is skipped
\* (every timeout enters a run), and, in a session of finitely many
\* inputs, every parameter change made while an image is loaded and no run
\* is executing is eventually followed by a run.
GuardCannotStick ==
    /\ [](is_processing <=> pc = "do_process")
    /\ [][(timer = 0 /\ timer' = -1) => pc' = "do_process"]_vars
    /\ (burst = "pending" /\ original_image # None /\ pc = "loop")
          ~> (pc = "do_process")

\* A run after a failed one: the thin raster cannot be displayed, the
\* parameters were changed since, and the later run has stored its output.
GuardCannotStickReached ==
    /\ original_image # None
    /\ original_image.src = "thin"
    /\ pc = "loop"
    /\ ~is_processing
    /\ burst = "ran"
    /\ run_log = "stored"
    /\ params.gamma = 200
    /\ processed_image # None
    /\ processed_image.params.gamma = 200

\* C30 (SpecProxy): the derived proxy is never degenerate: for every full
\* raster of width >= 1 and height >= 1, with proxy_max_dimension = 960,
\* _create_proxy returns a raster whose width and height are both >= 1.
ProxyNeverDegenerate ==
    (/\ cp_result # None
     /\ cp_max = proxy_max_dimension
     /\ cp_image.w >= 1 /\ cp_image.h >= 1)
       => /\ cp_result # ResizeError
          /\ cp_result.w >= 1
          /\ cp_result.h >= 1

====
